---------------------------- MODULE Spec2Model ----------------------------
(***************************************************************************)
(* Planna: catalog reconciliation (server/importCourses.js and its HTTP    *)
(* endpoint), the course-code resolver of the admin repair actions         *)
(* (src/lib/db/queries/admin.ts) and the store they write                  *)
(* (supabase/migrations/20260211000000_reset_public_schema.sql).           *)
(*                                                                         *)
(* Strings that the code inspects character by character (course codes,    *)
(* LIKE patterns) are sequences of one-character strings.  Opaque text     *)
(* (names, descriptions, tags) is a TLA+ string.  A surrogate id is a      *)
(* positive integer; NullId is SQL NULL in an id column.                   *)
(***************************************************************************)
EXTENDS Integers, Sequences, FiniteSets, TLC

-----------------------------------------------------------------------------
(* Bounds of the model *)

MaxEntries == 2      \* longest snapshot
MaxRuns == 1         \* import requests with a freely chosen snapshot
MaxReruns == 1       \* import requests that repeat the previous snapshot
MaxEdits == 1        \* curator edits (updateCourse)
MaxRefLen == 2       \* longest reference string given to the resolver
MaxAdminOps == 2     \* admin repair actions in the resolver specification
MaxCatalog == 3      \* courses in a catalog of the resolver specification
MaxCompleted == 2    \* longest list of completed course codes given to the evaluator
MaxRelRows == 3      \* relationship rows in the store of the evaluator specification
MaxWritten == 1      \* inserts of a stage that go through before a fault strikes
MaxGrades == 2       \* grade entries of an entry in the eligibility specification
MaxTerms == 2        \* term offerings of a grade entry in the eligibility specification

-----------------------------------------------------------------------------
(* Values *)

NullId == 0
Null == "NULL"                 \* SQL NULL / JS null in a text column
UndefS == "undefined"          \* JS undefined where text is expected
NullCode == <<"NULL">>         \* SQL NULL in a course-code column
Undef == <<"undefined">>       \* JS undefined where a course code is expected

c7 == <<"7">>
c7A == <<"7", "A">>
c7B == <<"7", "B">>
c8 == <<"8">>

StartsWith(s, p) == Len(p) <= Len(s) /\ SubSeq(s, 1, Len(p)) = p

Range(s) == {s[k] : k \in 1..Len(s)}

\* Number of occurrences of row x in table t.
Count(t, x) == Cardinality({k \in 1..Len(t) : t[k] = x})

\* Two tables hold the same rows with the same multiplicities.
SameRows(t1, t2) ==
    /\ Len(t1) = Len(t2)
    /\ \A x \in Range(t1) \cup Range(t2) : Count(t1, x) = Count(t2, x)

\* String.prototype.toLowerCase on the tag universe of the model.
ToLowerCase(s) ==
    CASE s = "SCIENCE" -> "science"
      [] s = "CAN_TAKE_VIRTUAL" -> "can_take_virtual"
      [] s = "CAN_TAKE_SUMMER" -> "can_take_summer"
      [] s = "AP" -> "ap"
      [] OTHER -> s

SKIP_TAGS == <<"CAN_TAKE_VIRTUAL", "CAN_TAKE_SUMMER", "science">>

\* Mutant: the skip-list is compared letter for letter.
shouldSkipTagExact(tagSymbol) ==
    \E k \in 1..Len(SKIP_TAGS) : SKIP_TAGS[k] = tagSymbol

shouldSkipTag(tagSymbol) ==
    \E k \in 1..Len(SKIP_TAGS) : ToLowerCase(SKIP_TAGS[k]) = ToLowerCase(tagSymbol)


-----------------------------------------------------------------------------
(* Snapshot entries.  An entry is one object of the uploaded JSON array.   *)
(* tags, variants, prerequisites and corequisites are arrays (a missing    *)
(* array behaves like an empty one in the code: Array.isArray(x) &&        *)
(* x.length > 0, `|| []`).  grades_eligible is {} when the field is not an *)
(* array and {a} when it is the array a, because the code treats an empty  *)
(* array and a missing one differently.                                    *)

NullTerm == 0 - 1              \* SQL NULL in course_eligibility.term_number

Tag(sym) == [symbol |-> sym]
Term(n, nm, cp) == [academic_term |-> n, name |-> nm, can_plan |-> cp]
Grade(g, terms) == [grade |-> g, academic_term_offered |-> terms]
Variant(code, mode) == [variant_course_code |-> code, delivery_mode |-> mode]
Alt(code, text) == [course_code |-> code, text |-> text]
Group(all, alts) == [requires_all |-> all, alternatives |-> alts]

Entry(code, nm, cr, tg, gr, vr, pre, co) ==
    [course_id |-> code, name |-> nm, credits |-> cr, tags |-> tg,
     grades_eligible |-> gr, variants |-> vr,
     prerequisites |-> pre, corequisites |-> co]

eAlg ==
    Entry(c7, "Algebra", 1, <<Tag("AP")>>,
          {<<Grade("9", <<Term(1, "Fall", TRUE), Term(2, "Spring", FALSE)>>)>>},
          <<Variant("V1", "in_person")>>, <<>>, <<>>)

eAlgA ==
    Entry(c7A, "Algebra A", 1, <<Tag("AP"), Tag("SCIENCE"), Tag("AP")>>,
          {<<Grade("9", <<>>), Grade("10", <<Term(1, "Fall", TRUE), Term(1, "Fall", FALSE)>>)>>},
          <<Variant("V1", "virtual"), Variant("V2", "summer")>>,
          <<Group(TRUE, <<Alt(c7, "Algebra"), Alt(c8, "Biology")>>)>>,
          <<Group(FALSE, <<Alt(c7, UndefS)>>)>>)

eBio ==
    Entry(c8, "Biology", 1, <<>>, {}, <<>>,
          <<Group(FALSE, <<Alt(c7, "Algebra"), Alt(Undef, "Teacher approval")>>)>>,
          <<>>)

eAlg2 ==
    Entry(c7, "Algebra II", 2, <<>>, {<<>>}, <<>>,
          <<Group(FALSE, <<Alt(c8, "Biology")>>), Group(TRUE, <<Alt(c7A, "Algebra A")>>)>>,
          <<>>)

\* Malformed entries: no course code; no name; a tag without a symbol.
eNoCode == Entry(Undef, "Ghost", 1, <<Tag("AP")>>, {<<>>}, <<>>, <<>>, <<>>)

eNoName == Entry(c8, UndefS, 2, <<Tag("AP")>>, {<<Grade("9", <<>>)>>}, <<>>, <<>>, <<>>)

eBadTag ==
    Entry(c7A, "Algebra A", 1, <<Tag("AP"), Tag(UndefS)>>, {<<Grade("9", <<>>)>>},
          <<Variant("V2", "summer")>>, <<Group(FALSE, <<Alt(c7, "Algebra")>>)>>, <<>>)

Entries == {eAlg, eAlgA, eBio, eAlg2, eNoCode, eNoName, eBadTag}

RECURSIVE SeqsUpTo(_, _)
SeqsUpTo(S, n) ==
    IF n = 0 THEN {<<>>}
    ELSE LET shorter == SeqsUpTo(S, n - 1)
         IN  shorter \cup {Append(q, x) : q \in {r \in shorter : Len(r) = n - 1}, x \in S}

Snapshots == SeqsUpTo(Entries, MaxEntries)

-----------------------------------------------------------------------------
(* State *)

VARIABLES
    courses,         \* table courses, in insertion order
    course_tags,     \* table course_tags
    course_eligibility,
    course_variants,
    course_relationships,
    nextRelId,       \* next surrogate id of course_relationships
    env,             \* process.env: which credentials are set
    pc,              \* position of the import: idle, pass0, pass1, pass2, pass2ins, done
    coursesData,     \* the snapshot of the running (or last) import
    idx,             \* loop index i of Pass 1 / Pass 2
    stats,           \* the statistics object of the running (or last) import
    courseCodeToId,  \* the run's Map course_code -> course_id, as a set of pairs
    response,        \* last HTTP response of the import endpoint
    runs, reruns, edits, adminOps,   \* counters that bound the model
    before,          \* history: table courses when the current cycle started
    prev,            \* history: snapshot and store content at the end of the previous cycle
    lastResolve,     \* history: reference and result of the last resolver call
    lastCheck        \* history: arguments and result of the last checkPrerequisitesMet call

store == <<courses, course_tags, course_eligibility, course_variants,
           course_relationships, nextRelId>>

run == <<pc, coursesData, idx, stats, courseCodeToId>>

vars == <<courses, course_tags, course_eligibility, course_variants,
          course_relationships, nextRelId, env, pc, coursesData, idx, stats,
          courseCodeToId, response, runs, reruns, edits, adminOps, before, prev,
          lastResolve, lastCheck>>

NoStats ==
    [total |-> 0, coursesCreated |-> 0, coursesUpdated |-> 0,
     coursesMarkedNotOffered |-> 0, tagsCreated |-> 0, eligibilityCreated |-> 0,
     relationshipsCreated |-> 0, variantsCreated |-> 0, variantsUpdated |-> 0,
     errors |-> 0, errorDetails |-> <<>>]

\* Content of the store with the regenerated surrogate row ids left out.
RelContent(r) ==
    [course_id |-> r.course_id, related_course_id |-> r.related_course_id,
     related_course_code |-> r.related_course_code,
     relationship_type |-> r.relationship_type, group_id |-> r.group_id,
     logic_type |-> r.logic_type, description |-> r.description]

Content ==
    [courses |-> courses, course_tags |-> course_tags,
     course_eligibility |-> course_eligibility, course_variants |-> course_variants,
     course_relationships |->
         [k \in 1..Len(course_relationships) |-> RelContent(course_relationships[k])]]

NoPrev == [valid |-> FALSE, data |-> <<>>, content |-> <<>>, errors |-> 0]

\* checkPrerequisitesMet has not been called yet.
NoCheck == [valid |-> FALSE, courseId |-> NullId, completed |-> <<>>, met |-> TRUE, unmet |-> <<>>]

\* No admin repair action has run yet.
NoResolve == [op |-> "none", ref |-> <<>>, relId |-> NullId]

FullEnv == [SUPABASE_URL |-> TRUE, SUPABASE_SERVICE_ROLE_KEY |-> TRUE]

Envs == [SUPABASE_URL : BOOLEAN, SUPABASE_SERVICE_ROLE_KEY : BOOLEAN]

Db ==
    [courses |-> courses, course_tags |-> course_tags,
     course_eligibility |-> course_eligibility, course_variants |-> course_variants,
     course_relationships |-> course_relationships, nextRelId |-> nextRelId]

SetDb(d) ==
    /\ courses' = d.courses
    /\ course_tags' = d.course_tags
    /\ course_eligibility' = d.course_eligibility
    /\ course_variants' = d.course_variants
    /\ course_relationships' = d.course_relationships
    /\ nextRelId' = d.nextRelId

EmptyDb ==
    [courses |-> <<>>, course_tags |-> <<>>, course_eligibility |-> <<>>,
     course_variants |-> <<>>, course_relationships |-> <<>>, nextRelId |-> 1]

-----------------------------------------------------------------------------
(* The import module: helpers *)

\* Mutant: the request is refused only when both credentials are unset.
ConfigMissingBoth(e) == ~e.SUPABASE_URL /\ ~e.SUPABASE_SERVICE_ROLE_KEY

\* getSupabaseClient throws, and the endpoint answers 500, when a credential is unset.
ConfigMissing(e) == ~e.SUPABASE_URL \/ ~e.SUPABASE_SERVICE_ROLE_KEY

\* new Set(coursesData.map(c => c.course_id).filter(Boolean))
importedCourseCodes(data) == {data[k].course_id : k \in 1..Len(data)} \ {Undef}

\* Pass 0: the offered courses whose code is not in the import.
toMarkNotOffered(cs, data) ==
    {k \in 1..Len(cs) :
        cs[k].is_offered /\ cs[k].external_course_code \notin importedCourseCodes(data)}

\* Mutant: Pass 0 removes the rows instead of flagging them.
MarkCoursesDeleted(cs, idsToMark) == SelectSeq(cs, LAMBDA r : r.id \notin idsToMark)

\* .from('courses').update({ is_offered: false }).in('id', idsToMark)
MarkCoursesNotOffered(cs, idsToMark) ==
    [k \in 1..Len(cs) |->
        IF cs[k].id \in idsToMark THEN [cs[k] EXCEPT !.is_offered = FALSE] ELSE cs[k]]

\* Mutant: Pass 0 does not cascade the flag onto the variants.
MarkVariantsSkipped(vs, idsToMark) == vs

\* .from('course_variants').update({ is_offered: false }).in('course_id', idsToMark)
MarkVariantsNotOffered(vs, idsToMark) ==
    [k \in 1..Len(vs) |->
        IF vs[k].course_id \in idsToMark THEN [vs[k] EXCEPT !.is_offered = FALSE] ELSE vs[k]]

\* .from('courses').select('id').eq('external_course_code', c.course_id).maybeSingle()
\* (an undefined code is sent as the text "undefined", which no course of the model has)
Existing(cs, code) == {k \in 1..Len(cs) : cs[k].external_course_code = code}

\* Mutant: the upsert writes description and notes as null for every course.
courseDataClearing(c, existing) ==
    [external_course_code |-> c.course_id,
     name |-> c.name,
     credits |-> c.credits,
     description |-> Null,
     notes |-> Null,
     is_offered |-> TRUE]

\* The object written by the upsert.  A property whose value is undefined is
\* left out of the JSON body, so the column keeps its value (update) or takes
\* its default (insert).
courseData(c, existing) ==
    [external_course_code |-> c.course_id,
     name |-> c.name,
     credits |-> c.credits,
     description |-> IF existing THEN UndefS ELSE Null,
     notes |-> IF existing THEN UndefS ELSE Null,
     is_offered |-> TRUE]

\* .update(courseData).eq('id', existing.id)
UpdateCourseRow(row, d) ==
    [row EXCEPT
        !.external_course_code = IF d.external_course_code = Undef THEN @ ELSE d.external_course_code,
        !.name = IF d.name = UndefS THEN @ ELSE d.name,
        !.credits = d.credits,
        !.description = IF d.description = UndefS THEN @ ELSE d.description,
        !.notes = IF d.notes = UndefS THEN @ ELSE d.notes,
        !.is_offered = d.is_offered]

\* external_course_code text UNIQUE NOT NULL, name text NOT NULL
InsertViolatesNotNull(d) == d.external_course_code = Undef \/ d.name = UndefS

\* .insert(courseData): the new row, with a fresh surrogate id
NewCourseRow(cs, d) ==
    [id |-> Len(cs) + 1,
     external_course_code |-> d.external_course_code,
     name |-> d.name,
     credits |-> d.credits,
     description |-> d.description,
     notes |-> d.notes,
     is_offered |-> d.is_offered]

\* The upsert of Pass 1: [ok, courses, id, created].
UpsertCourse(cs, c) ==
    LET ex == Existing(cs, c.course_id)
        d == courseData(c, ex # {})
    IN  IF ex # {}
        THEN LET k == CHOOSE j \in ex : TRUE
             IN  [ok |-> TRUE, created |-> FALSE, id |-> cs[k].id,
                  courses |-> [cs EXCEPT ![k] = UpdateCourseRow(cs[k], d)]]
        ELSE IF InsertViolatesNotNull(d)
             THEN [ok |-> FALSE, created |-> FALSE, id |-> NullId, courses |-> cs]
             ELSE [ok |-> TRUE, created |-> TRUE, id |-> Len(cs) + 1,
                   courses |-> Append(cs, NewCourseRow(cs, d))]

\* Mutant: the delete before the re-insert does nothing.
DeleteOfCourseKeeps(t, courseId) == t

\* .delete().eq('course_id', courseId)
DeleteOfCourse(t, courseId) == SelectSeq(t, LAMBDA r : r.course_id # courseId)

\* The tag loop.  st = [table, created, threw]; an insert that violates
\* UNIQUE(course_id, tag) returns an error, which the loop ignores; a tag
\* without a symbol makes shouldSkipTag throw a TypeError.
RECURSIVE InsertTags(_, _, _, _)
InsertTags(st, courseId, tags, k) ==
    IF k > Len(tags) \/ st.threw THEN st
    ELSE LET sym == tags[k].symbol
             row == [course_id |-> courseId, tag |-> sym]
         IN  IF sym = UndefS THEN [st EXCEPT !.threw = TRUE]
             ELSE IF shouldSkipTag(sym) THEN InsertTags(st, courseId, tags, k + 1)
             ELSE IF \E j \in 1..Len(st.table) : st.table[j] = row
                  THEN InsertTags(st, courseId, tags, k + 1)
                  ELSE InsertTags([st EXCEPT !.table = Append(@, row), !.created = @ + 1],
                                  courseId, tags, k + 1)

SyncTags(t, courseId, tags) ==
    IF Len(tags) > 0
    THEN InsertTags([table |-> DeleteOfCourse(t, courseId), created |-> 0, threw |-> FALSE],
                    courseId, tags, 1)
    ELSE [table |-> t, created |-> 0, threw |-> FALSE]

RECURSIVE Concat(_)
Concat(ss) == IF Len(ss) = 0 THEN <<>> ELSE Head(ss) \o Concat(Tail(ss))

\* The eligibility rows one grade entry asks for.
EligRowsOf(courseId, g) ==
    LET terms == g.academic_term_offered
    IN  IF Len(terms) > 0
        THEN [k \in 1..Len(terms) |->
                 [course_id |-> courseId, grade |-> g.grade,
                  term_number |-> terms[k].academic_term,
                  term_name |-> terms[k].name, can_plan |-> terms[k].can_plan]]
        ELSE <<[course_id |-> courseId, grade |-> g.grade, term_number |-> NullTerm,
                term_name |-> Null, can_plan |-> TRUE]>>

EligRows(courseId, grades) ==
    Concat([j \in 1..Len(grades) |-> EligRowsOf(courseId, grades[j])])

\* UNIQUE(course_id, grade, term_number); NULL term numbers never collide.
EligViolatesUnique(t, row) ==
    /\ row.term_number # NullTerm
    /\ \E j \in 1..Len(t) :
          /\ t[j].course_id = row.course_id
          /\ t[j].grade = row.grade
          /\ t[j].term_number = row.term_number

RECURSIVE InsertElig(_, _, _)
InsertElig(st, rows, k) ==
    IF k > Len(rows) THEN st
    ELSE IF EligViolatesUnique(st.table, rows[k])
         THEN InsertElig(st, rows, k + 1)
         ELSE InsertElig([st EXCEPT !.table = Append(@, rows[k]), !.created = @ + 1],
                         rows, k + 1)

SyncEligibility(t, courseId, gradesOpt) ==
    IF gradesOpt # {}
    THEN LET grades == CHOOSE a \in gradesOpt : TRUE
         IN  InsertElig([table |-> DeleteOfCourse(t, courseId), created |-> 0],
                        EligRows(courseId, grades), 1)
    ELSE [table |-> t, created |-> 0]

variantData(courseId, v) ==
    [course_id |-> courseId, variant_course_code |-> v.variant_course_code,
     delivery_mode |-> v.delivery_mode, is_offered |-> TRUE]

\* Mutant: after error 23505 the existing row is left as it is.
LeaveVariant(t, d) == t

\* .update(variantData).eq('variant_course_code', ...) after error 23505
UpdateVariantByCode(t, d) ==
    [j \in 1..Len(t) |->
        IF t[j].variant_course_code = d.variant_course_code THEN d ELSE t[j]]

\* The variant loop.  st = [table, created, updated]; variant_course_code is UNIQUE.
RECURSIVE InsertVariants(_, _, _, _)
InsertVariants(st, courseId, vs, k) ==
    IF k > Len(vs) THEN st
    ELSE LET d == variantData(courseId, vs[k])
         IN  IF \E j \in 1..Len(st.table) :
                    st.table[j].variant_course_code = d.variant_course_code
             THEN InsertVariants([st EXCEPT !.table = UpdateVariantByCode(@, d),
                                            !.updated = @ + 1], courseId, vs, k + 1)
             ELSE InsertVariants([st EXCEPT !.table = Append(@, d), !.created = @ + 1],
                                 courseId, vs, k + 1)

SyncVariants(t, courseId, vs) ==
    IF Len(vs) > 0
    THEN InsertVariants([table |-> DeleteOfCourse(t, courseId), created |-> 0, updated |-> 0],
                        courseId, vs, 1)
    ELSE [table |-> t, created |-> 0, updated |-> 0]

\* courseCodeToId.set(code, id)
MapSet(m, code, id) == {p \in m : p.code # code} \cup {[code |-> code, id |-> id]}

MapHas(m, code) == \E p \in m : p.code = code

\* Mutant: a code that is not in the map resolves to an entry it is a prefix of.
MapGetPrefix(m, code) ==
    IF \E p \in m : p.code = code THEN (CHOOSE p \in m : p.code = code).id
    ELSE IF \E p \in m : StartsWith(p.code, code)
         THEN (CHOOSE p \in m : StartsWith(p.code, code)).id
         ELSE NullId

\* courseCodeToId.get(code) || null
MapGet(m, code) == IF MapHas(m, code) THEN (CHOOSE p \in m : p.code = code).id ELSE NullId

\* The row inserted for one alternative of a requirement group.  The insert
\* names no related_course_code, so that column is NULL; an undefined text
\* is left out of the JSON body, so description is NULL.
RelRow(courseId, m, type, prefix, groupIndex, grp, alt) ==
    [course_id |-> courseId,
     related_course_id |-> MapGet(m, alt.course_code),
     related_course_code |-> NullCode,
     relationship_type |-> type,
     group_id |-> <<prefix, groupIndex>>,
     logic_type |-> IF grp.requires_all THEN "AND" ELSE "OR",
     description |-> IF alt.text = UndefS THEN Null ELSE alt.text]

\* The rows of all groups of one kind, in insertion order (groupIndex is 0-based).
GroupRows(courseId, m, type, prefix, groups) ==
    Concat([g \in 1..Len(groups) |->
              [a \in 1..Len(groups[g].alternatives) |->
                  RelRow(courseId, m, type, prefix, g - 1, groups[g],
                         groups[g].alternatives[a])]])

RelRows(courseId, m, c) ==
    GroupRows(courseId, m, "prerequisite", "prereq_group_", c.prerequisites)
        \o GroupRows(courseId, m, "corequisite", "coreq_group_", c.corequisites)

WithIds(rows, first) ==
    [k \in 1..Len(rows) |->
        [id |-> first + k - 1, course_id |-> rows[k].course_id,
         related_course_id |-> rows[k].related_course_id,
         related_course_code |-> rows[k].related_course_code,
         relationship_type |-> rows[k].relationship_type,
         group_id |-> rows[k].group_id, logic_type |-> rows[k].logic_type,
         description |-> rows[k].description]]

ErrorDetail(c, type) == [course_id |-> c.course_id, type |-> type]

-----------------------------------------------------------------------------
(* importCoursesFromJson, pass by pass, as functions of the store d, the   *)
(* statistics st and the run's code map m                                  *)

\* Pass 0
Pass0Step(d, st, data) ==
    LET idsToMark == {d.courses[k].id : k \in toMarkNotOffered(d.courses, data)}
    IN  [db |-> [d EXCEPT !.courses = MarkCoursesNotOffered(@, idsToMark),
                          !.course_variants = MarkVariantsNotOffered(@, idsToMark)],
         stats |-> [st EXCEPT !.coursesMarkedNotOffered = Cardinality(idsToMark)]]

\* Mutant: the catch block counts the error and records no detail.
CaughtUnlisted(st, c, type) == [st EXCEPT !.errors = @ + 1]

\* catch (error) { stats.errors++; stats.errorDetails.push(...) }
Caught(st, c, type) ==
    [st EXCEPT !.errors = @ + 1, !.errorDetails = Append(@, ErrorDetail(c, type))]

\* One iteration of the Pass 1 loop, for entry c.
Pass1Step(d, st, m, c) ==
    LET up == UpsertCourse(d.courses, c)
        st1 == IF up.created
               THEN [st EXCEPT !.coursesCreated = @ + 1]
               ELSE [st EXCEPT !.coursesUpdated = @ + 1]
        tg == SyncTags(d.course_tags, up.id, c.tags)
        st2 == [st1 EXCEPT !.tagsCreated = @ + tg.created]
        el == SyncEligibility(d.course_eligibility, up.id, c.grades_eligible)
        vr == SyncVariants(d.course_variants, up.id, c.variants)
        d1 == [d EXCEPT !.courses = up.courses, !.course_tags = tg.table]
    IN  IF ~up.ok
        THEN [db |-> d, stats |-> Caught(st, c, UndefS), map |-> m]
        ELSE IF tg.threw
        THEN [db |-> d1, stats |-> Caught(st2, c, UndefS),
              map |-> MapSet(m, c.course_id, up.id)]
        ELSE [db |-> [d1 EXCEPT !.course_eligibility = el.table,
                                !.course_variants = vr.table],
              stats |-> [st2 EXCEPT !.eligibilityCreated = @ + el.created,
                                    !.variantsCreated = @ + vr.created,
                                    !.variantsUpdated = @ + vr.updated],
              map |-> MapSet(m, c.course_id, up.id)]

\* Mutant: Pass 2 inserts without deleting the course's relationships first.
Pass2DeleteSkipped(d, courseId) == d

\* Pass 2, first half of an iteration: delete the course's relationships.
Pass2DeleteStep(d, courseId) ==
    [d EXCEPT !.course_relationships = DeleteOfCourse(@, courseId)]

\* Pass 2, second half: insert the rows of the prerequisite groups, then
\* those of the corequisite groups.
Pass2InsertStep(d, st, m, c) ==
    LET rows == RelRows(MapGet(m, c.course_id), m, c)
    IN  [db |-> [d EXCEPT !.course_relationships = @ \o WithIds(rows, d.nextRelId),
                          !.nextRelId = @ + Len(rows)],
         stats |-> [st EXCEPT !.relationshipsCreated = @ + Len(rows)]]

\* One iteration of the Pass 2 loop (if (!courseId) continue).
Pass2Step(d, st, m, c) ==
    IF MapGet(m, c.course_id) = NullId
    THEN [db |-> d, stats |-> st]
    ELSE Pass2InsertStep(Pass2DeleteStep(d, MapGet(m, c.course_id)), st, m, c)

RECURSIVE Pass1Loop(_, _, _)
Pass1Loop(x, data, k) ==
    IF k > Len(data) THEN x
    ELSE Pass1Loop(Pass1Step(x.db, x.stats, x.map, data[k]), data, k + 1)

RECURSIVE Pass2Loop(_, _, _, _)
Pass2Loop(x, m, data, k) ==
    IF k > Len(data) THEN x
    ELSE Pass2Loop(Pass2Step(x.db, x.stats, m, data[k]), m, data, k + 1)

\* The store after a whole cycle on data, started on store d.
importCoursesFromJson(d, data) ==
    LET p0 == Pass0Step(d, [NoStats EXCEPT !.total = Len(data)], data)
        p1 == Pass1Loop([db |-> p0.db, stats |-> p0.stats, map |-> {}], data, 1)
    IN  Pass2Loop([db |-> p1.db, stats |-> p1.stats], p1.map, data, 1).db

RECURSIVE AfterCycles(_, _)
AfterCycles(d, snapshots) ==
    IF Len(snapshots) = 0 THEN d
    ELSE AfterCycles(importCoursesFromJson(d, Head(snapshots)), Tail(snapshots))

\* The stores the model starts from: the empty store of a fresh database,
\* and the stores left by earlier cycles (two courses of which one was then
\* retired with its variants; a family member that moved a variant).
SeedHistories ==
    {<<>>,
     <<<<eAlg, eBio>>, <<eBio>>>>,
     <<<<eAlgA, eAlg>>, <<eAlgA>>>>}

-----------------------------------------------------------------------------
(* Initial state *)

IdleInit ==
    /\ env = FullEnv
    /\ pc = "idle"
    /\ coursesData = <<>>
    /\ idx = 0
    /\ stats = NoStats
    /\ courseCodeToId = {}
    /\ response = "none"
    /\ runs = 0
    /\ reruns = 0
    /\ edits = 0
    /\ adminOps = 0
    /\ before = <<>>
    /\ prev = NoPrev
    /\ lastResolve = NoResolve
    /\ lastCheck = NoCheck

StoreIs(d) ==
    /\ courses = d.courses
    /\ course_tags = d.course_tags
    /\ course_eligibility = d.course_eligibility
    /\ course_variants = d.course_variants
    /\ course_relationships = d.course_relationships
    /\ nextRelId = d.nextRelId

Init ==
    /\ \E h \in SeedHistories : StoreIs(AfterCycles(EmptyDb, h))
    /\ IdleInit

-----------------------------------------------------------------------------
(* POST /api/admin/import-courses-from-json and the steps of the import *)

admin == <<adminOps, lastResolve, lastCheck>>

\* The snapshots a request may carry: any snapshot while runs remain, or the
\* snapshot of the cycle that has just ended (a re-run).
Requestable ==
    (IF runs < MaxRuns THEN Snapshots ELSE {})
        \cup (IF pc = "done" /\ reruns < MaxReruns THEN {coursesData} ELSE {})

CountRequest(data) ==
    IF pc = "done" /\ reruns < MaxReruns /\ data = coursesData
    THEN runs' = runs /\ reruns' = reruns + 1
    ELSE runs' = runs + 1 /\ reruns' = reruns

\* Missing credentials: 500, before importCoursesFromJson is called.
RejectConfig ==
    /\ pc \in {"idle", "done"}
    /\ \E e \in Envs :
          /\ ConfigMissing(e)
          /\ env' = e
    /\ response' = "500"
    /\ UNCHANGED <<store, run, runs, reruns, edits, admin, before, prev>>

\* An empty array: 400.
RejectEmpty ==
    /\ pc \in {"idle", "done"}
    /\ <<>> \in Requestable
    /\ \E e \in Envs :
          /\ ~ConfigMissing(e)
          /\ env' = e
    /\ response' = "400"
    /\ UNCHANGED <<store, run, runs, reruns, edits, admin, before, prev>>

\* A non-empty array with the credentials set: the import starts.
StartImport ==
    /\ pc \in {"idle", "done"}
    /\ \E data \in Requestable :
          /\ Len(data) > 0
          /\ \E e \in Envs :
                /\ ~ConfigMissing(e)
                /\ env' = e
          /\ coursesData' = data
          /\ stats' = [NoStats EXCEPT !.total = Len(data)]
          /\ CountRequest(data)
    /\ courseCodeToId' = {}
    /\ pc' = "pass0"
    /\ idx' = 1
    /\ response' = "none"
    /\ before' = courses
    /\ prev' = IF pc = "done"
               THEN [valid |-> TRUE, data |-> coursesData, content |-> Content,
                     errors |-> stats.errors]
               ELSE NoPrev
    /\ UNCHANGED <<store, edits, admin>>

Pass0 ==
    /\ pc = "pass0"
    /\ LET n == Pass0Step(Db, stats, coursesData)
       IN  SetDb(n.db) /\ stats' = n.stats
    /\ pc' = "pass1"
    /\ UNCHANGED <<env, coursesData, idx, courseCodeToId, response, runs, reruns,
                   edits, admin, before, prev>>

Pass1 ==
    /\ pc = "pass1"
    /\ LET n == Pass1Step(Db, stats, courseCodeToId, coursesData[idx])
       IN  SetDb(n.db) /\ stats' = n.stats /\ courseCodeToId' = n.map
    /\ IF idx = Len(coursesData)
       THEN pc' = "pass2" /\ idx' = 1
       ELSE pc' = "pass1" /\ idx' = idx + 1
    /\ UNCHANGED <<env, coursesData, response, runs, reruns, edits, admin, before, prev>>

\* End of one iteration of the Pass 2 loop; after the last one the function
\* returns stats and the endpoint answers 200 with success: true.
Advance2 ==
    IF idx = Len(coursesData)
    THEN pc' = "done" /\ idx' = idx /\ response' = "200"
    ELSE pc' = "pass2" /\ idx' = idx + 1 /\ response' = response

\* if (!courseId) continue
Pass2Skip ==
    /\ pc = "pass2"
    /\ MapGet(courseCodeToId, coursesData[idx].course_id) = NullId
    /\ Advance2
    /\ UNCHANGED <<store, env, coursesData, stats, courseCodeToId, runs, reruns,
                   edits, admin, before, prev>>

Pass2Delete ==
    /\ pc = "pass2"
    /\ MapGet(courseCodeToId, coursesData[idx].course_id) # NullId
    /\ SetDb(Pass2DeleteStep(Db, MapGet(courseCodeToId, coursesData[idx].course_id)))
    /\ pc' = "pass2ins"
    /\ UNCHANGED <<env, coursesData, idx, stats, courseCodeToId, response, runs,
                   reruns, edits, admin, before, prev>>

Pass2Insert ==
    /\ pc = "pass2ins"
    /\ LET n == Pass2InsertStep(Db, stats, courseCodeToId, coursesData[idx])
       IN  SetDb(n.db) /\ stats' = n.stats
    /\ Advance2
    /\ UNCHANGED <<env, coursesData, courseCodeToId, runs, reruns, edits, admin,
                   before, prev>>

\* updateCourse(id, { description, notes }): the curator's editing interface.
CuratorEdit ==
    /\ pc \in {"idle", "done"}
    /\ edits < MaxEdits
    /\ \E k \in 1..Len(courses) :
          courses' = [courses EXCEPT ![k].description = "Curated text",
                                     ![k].notes = "Curated note"]
    /\ edits' = edits + 1
    /\ pc' = "idle"
    /\ UNCHANGED <<course_tags, course_eligibility, course_variants,
                   course_relationships, nextRelId, env, coursesData, idx, stats,
                   courseCodeToId, response, runs, reruns, admin, before, prev>>

Next ==
    \/ RejectConfig
    \/ RejectEmpty
    \/ StartImport
    \/ Pass0
    \/ Pass1
    \/ Pass2Skip
    \/ Pass2Delete
    \/ Pass2Insert
    \/ CuratorEdit

Spec == Init /\ [][Next]_vars

-----------------------------------------------------------------------------
(* The import with a database error in Pass 0 *)

\* One of the requests of Pass 0 returns an error (the select, the update of
\* courses, or the update of course_variants after the courses were
\* flagged): the catch block counts it under the code PASS_0 and the import
\* goes on with Pass 1.
Pass0Fails ==
    /\ pc = "pass0"
    /\ \E failed \in {"select", "courses", "variants"} :
          LET idsToMark == {courses[k].id : k \in toMarkNotOffered(courses, coursesData)}
          IN  /\ failed # "select" => idsToMark # {}
              /\ courses' = IF failed = "variants"
                            THEN MarkCoursesNotOffered(courses, idsToMark)
                            ELSE courses
    /\ stats' = Caught(stats, [course_id |-> <<"PASS_0">>], UndefS)
    /\ pc' = "pass1"
    /\ UNCHANGED <<course_tags, course_eligibility, course_variants, course_relationships,
                   nextRelId, env, coursesData, idx, courseCodeToId, response, runs,
                   reruns, edits, admin, before, prev>>

NextFaults ==
    \/ Next
    \/ Pass0Fails

SpecFaults == Init /\ [][NextFaults]_vars

-----------------------------------------------------------------------------
(* Properties of the reconciler *)

Codes(data) == {data[k].course_id : k \in 1..Len(data)}

CourseCodes == {courses[k].external_course_code : k \in 1..Len(courses)}

CourseWithCode(code) == CHOOSE r \in Range(courses) : r.external_course_code = code

\* The codes of the snapshot that have a persisted course at the end of the cycle.
UpsertedCodes == Codes(coursesData) \cap CourseCodes

\* The last entry of the snapshot with the given code.
LastEntry(code) ==
    LET ks == {k \in 1..Len(coursesData) : coursesData[k].course_id = code}
    IN  coursesData[CHOOSE k \in ks : \A j \in ks : j <= k]

RowsOf(t, courseId) == SelectSeq(t, LAMBDA r : r.course_id = courseId)

\* All alternatives of an entry: prerequisite groups first, then corequisite groups.
AltsOf(c) ==
    Concat([g \in 1..Len(c.prerequisites) |-> c.prerequisites[g].alternatives])
        \o Concat([g \in 1..Len(c.corequisites) |-> c.corequisites[g].alternatives])

Repeated == pc = "done" /\ prev.valid /\ prev.data = coursesData

SameContent(a, b) ==
    /\ a.courses = b.courses
    /\ SameRows(a.course_tags, b.course_tags)
    /\ SameRows(a.course_eligibility, b.course_eligibility)
    /\ SameRows(a.course_variants, b.course_variants)
    /\ SameRows(a.course_relationships, b.course_relationships)

NoDuplicateTags ==
    \A j, k \in 1..Len(course_tags) : j # k => course_tags[j] # course_tags[k]

\* C1: when the reconciler runs on a snapshot and then again on the same
\* snapshot, with no failure reported by either run and no other writer in
\* between, the store content after the second run (surrogate row ids
\* aside) equals the content after the first, no tag, eligibility or
\* relationship row is duplicated by the second run, and the second run
\* reports coursesCreated = 0 and coursesUpdated = total.
Idempotence ==
    (Repeated /\ prev.errors = 0 /\ stats.errors = 0) =>
        /\ SameContent(Content, prev.content)
        /\ NoDuplicateTags
        /\ stats.coursesCreated = 0
        /\ stats.coursesUpdated = stats.total

\* A re-run over a store that the first run had to change in every table.
IdempotenceWitness ==
    /\ Repeated
    /\ Len(course_tags) > 0
    /\ Len(course_eligibility) > 0
    /\ Len(course_variants) > 0
    /\ Len(course_relationships) > 0
    /\ prev.errors = 0
    /\ stats.errors = 0
    /\ stats.coursesUpdated = 2
    /\ \E r \in Range(courses) : ~r.is_offered

\* C2: after a cycle, every persisted course whose code is not in the
\* snapshot is not offered and neither is any of its variants, and every
\* persisted course whose code is in the snapshot is offered.
DeactivationCorrect ==
    pc = "done" =>
        \A r \in Range(courses) :
            IF r.external_course_code \in Codes(coursesData)
            THEN r.is_offered
            ELSE /\ ~r.is_offered
                 /\ \A v \in Range(course_variants) : v.course_id = r.id => ~v.is_offered

\* A cycle that retired a course with a variant and re-enabled a course an
\* earlier cycle had retired.
DeactivationWitness ==
    /\ pc = "done"
    /\ \E r \in Range(courses) :
          /\ r.external_course_code \notin Codes(coursesData)
          /\ \E b \in Range(before) : b.id = r.id /\ b.is_offered
          /\ \E v \in Range(course_variants) : v.course_id = r.id
    /\ \E r \in Range(courses) :
          /\ r.external_course_code \in Codes(coursesData)
          /\ \E b \in Range(before) : b.id = r.id /\ ~b.is_offered

\* C3: a course that exists when a cycle starts has the same description and
\* notes during and after the cycle, whatever the cycle updates; a course
\* the cycle inserts has both empty.
CuratedPreserved ==
    pc \in {"pass0", "pass1", "pass2", "pass2ins", "done"} =>
        /\ \A b \in Range(before) :
              \E r \in Range(courses) :
                  /\ r.id = b.id
                  /\ r.description = b.description
                  /\ r.notes = b.notes
        /\ \A r \in Range(courses) :
              (\A b \in Range(before) : b.id # r.id) =>
                  r.description = Null /\ r.notes = Null

\* A cycle that changed the core fields of a course with curated text, and
\* inserted another course.
CuratedWitness ==
    /\ pc = "done"
    /\ \E b \in Range(before) :
          /\ b.description = "Curated text"
          /\ \E r \in Range(courses) :
                r.id = b.id /\ r.name # b.name /\ r.credits # b.credits
    /\ Len(courses) > Len(before)

\* C4: no step removes a course row or changes the id or the code of one.
NoHardDeletion ==
    [][\A r \in Range(courses) :
          \E r2 \in Range(courses') :
              r2.id = r.id /\ r2.external_course_code = r.external_course_code]_vars

\* A course that a cycle retired is still in the store, under its id.
NoHardDeletionWitness ==
    /\ pc = "done"
    /\ \E b \in Range(before) :
          /\ b.is_offered
          /\ b.external_course_code \notin Codes(coursesData)
          /\ \E r \in Range(courses) : r.id = b.id /\ ~r.is_offered

\* An entry that lacks a required field: the course code, the name, or the
\* symbol of one of its tags.
Malformed(c) ==
    \/ c.course_id = Undef
    \/ c.name = UndefS
    \/ \E k \in 1..Len(c.tags) : c.tags[k].symbol = UndefS

\* C5 as stated: when exactly one entry of the snapshot is malformed, every
\* other entry is upserted and exactly one error is reported, for that entry.
PartialFailureResilience ==
    (pc = "done" /\ Cardinality({k \in 1..Len(coursesData) : Malformed(coursesData[k])}) = 1) =>
        LET bad == CHOOSE k \in 1..Len(coursesData) : Malformed(coursesData[k])
        IN  /\ \A k \in 1..Len(coursesData) :
                  k # bad => /\ coursesData[k].course_id \in CourseCodes
                             /\ CourseWithCode(coursesData[k].course_id).is_offered
            /\ stats.coursesCreated + stats.coursesUpdated >= stats.total - 1
            /\ stats.errors = 1
            /\ Len(stats.errorDetails) = 1
            /\ stats.errorDetails[1].course_id = coursesData[bad].course_id

AttemptedTagInserts(c) ==
    Cardinality({k \in 1..Len(c.tags) :
                    c.tags[k].symbol # UndefS /\ ~shouldSkipTag(c.tags[k].symbol)})

\* C6 as stated: an iteration of Pass 1 in which a tag insert fails (fewer
\* tag rows created than inserts attempted) counts an error for the course.
FailedWritesCounted ==
    [][(pc = "pass1" /\ stats'.tagsCreated - stats.tagsCreated
                            < AttemptedTagInserts(coursesData[idx]))
         => /\ stats'.errors = stats.errors + 1
            /\ stats'.errorDetails[Len(stats'.errorDetails)].course_id
                   = coursesData[idx].course_id]_vars

\* C7: a request handled while a credential is unset is answered with an
\* error and leaves the store and the import state as they were.
ConfigFailFast ==
    [][(<<env, response>>' # <<env, response>>
            /\ (~env'.SUPABASE_URL \/ ~env'.SUPABASE_SERVICE_ROLE_KEY))
         => (response' = "500" /\ UNCHANGED store /\ UNCHANGED run)]_vars

\* A request was refused for a missing credential while the store held rows.
ConfigFailFastWitness ==
    /\ response = "500"
    /\ ~env.SUPABASE_SERVICE_ROLE_KEY
    /\ env.SUPABASE_URL
    /\ Len(courses) > 0
    /\ Len(course_relationships) > 0

\* C8 as stated: after a cycle, the relationship rows of every upserted
\* course carry, alternative by alternative, the alternative's course code
\* in related_course_code and its text in description.
ReferencePreserved ==
    pc = "done" =>
        \A code \in UpsertedCodes :
            LET rows == RowsOf(course_relationships, CourseWithCode(code).id)
                alts == AltsOf(LastEntry(code))
            IN  /\ Len(rows) = Len(alts)
                /\ \A j \in 1..Len(alts) :
                      /\ alts[j].course_code # Undef
                            => rows[j].related_course_code = alts[j].course_code
                      /\ alts[j].text # UndefS => rows[j].description = alts[j].text

\* C9: after a cycle, every upserted course has exactly one relationship row
\* per alternative of its entry, in order; the row's related_course_id is
\* the id of the course whose code equals the alternative's code when that
\* code was upserted in this run (wherever its entry stands in the
\* snapshot), and NULL otherwise: a code that is only a prefix of an
\* upserted code does not resolve.
Pass2Resolution ==
    pc = "done" =>
        \A code \in UpsertedCodes :
            LET rows == RowsOf(course_relationships, CourseWithCode(code).id)
                alts == AltsOf(LastEntry(code))
            IN  /\ Len(rows) = Len(alts)
                /\ \A j \in 1..Len(alts) :
                      rows[j].related_course_id =
                          IF alts[j].course_code \in UpsertedCodes
                          THEN CourseWithCode(alts[j].course_code).id
                          ELSE NullId

\* A cycle with a forward reference that resolved, and an alternative whose
\* code is a prefix of an upserted code and stayed unresolved.
Pass2ResolutionWitness ==
    /\ pc = "done"
    /\ Len(coursesData) = 2
    /\ \E a \in Range(AltsOf(coursesData[1])) :
          a.course_code = coursesData[2].course_id
    /\ \E r \in Range(course_relationships) : r.related_course_id # NullId
    /\ \E code \in UpsertedCodes :
          \E a \in Range(AltsOf(LastEntry(code))) :
              /\ a.course_code \notin UpsertedCodes
              /\ \E c2 \in UpsertedCodes : StartsWith(c2, a.course_code)

\* The tag symbols an entry asks for: those not on the skip list.
WantedTags(c) ==
    {c.tags[k].symbol : k \in {j \in 1..Len(c.tags) :
                                  c.tags[j].symbol # UndefS /\ ~shouldSkipTag(c.tags[j].symbol)}}

WantedVariants(c) == {c.variants[k].variant_course_code : k \in 1..Len(c.variants)}

\* C17 as stated: after a cycle without errors, the tags and the variants of
\* every snapshot course are exactly those of its entry (none when the
\* entry lists none), and it has one relationship row per alternative of
\* the entry.
ExactMirroring ==
    (pc = "done" /\ stats.errors = 0) =>
        \A code \in UpsertedCodes :
            LET id == CourseWithCode(code).id
                e == LastEntry(code)
            IN  /\ {r.tag : r \in Range(RowsOf(course_tags, id))} = WantedTags(e)
                /\ {r.variant_course_code : r \in Range(RowsOf(course_variants, id))}
                       = WantedVariants(e)
                /\ Len(RowsOf(course_relationships, id)) = Len(AltsOf(e))

\* The entries of the snapshot that list the variant code.
ListingEntries(vcode) ==
    {k \in 1..Len(coursesData) : vcode \in WantedVariants(coursesData[k])}

\* C18: an iteration of Pass 1 that met a variant-code collision counts no
\* error and leaves, for every variant of its entry, one row with that
\* code, attached to the entry's course and offered; and at the end of a
\* cycle every variant code is in at most one row, and a row whose code the
\* snapshot lists is attached to a snapshot course listing it, with that
\* entry's delivery mode.
VariantCollision ==
    [][/\ (pc = "pass1" /\ stats'.variantsUpdated > stats.variantsUpdated) =>
              /\ stats'.errors = stats.errors
              /\ \A vcode \in WantedVariants(coursesData[idx]) :
                    \E k \in 1..Len(course_variants') :
                        /\ course_variants'[k].variant_course_code = vcode
                        /\ course_variants'[k].is_offered
                        /\ \E c \in Range(courses') :
                              /\ c.external_course_code = coursesData[idx].course_id
                              /\ c.id = course_variants'[k].course_id
       /\ pc' = "done" =>
              /\ \A j, k \in 1..Len(course_variants') :
                    course_variants'[j].variant_course_code
                        = course_variants'[k].variant_course_code => j = k
              /\ \A v \in Range(course_variants') :
                    ListingEntries(v.variant_course_code) # {} =>
                        \E k \in ListingEntries(v.variant_course_code) :
                            /\ \E c \in Range(courses') :
                                  /\ c.external_course_code = coursesData[k].course_id
                                  /\ c.id = v.course_id
                            /\ \E x \in Range(coursesData[k].variants) :
                                  /\ x.variant_course_code = v.variant_course_code
                                  /\ x.delivery_mode = v.delivery_mode]_vars

\* A cycle whose two entries list the same variant code: the row ends under
\* the second entry's course, with one update and no error counted.
VariantCollisionWitness ==
    /\ pc = "done"
    /\ Len(coursesData) = 2
    /\ coursesData[1].course_id # coursesData[2].course_id
    /\ stats.variantsUpdated = 1
    /\ stats.errors = 0
    /\ \E v \in Range(course_variants) :
          /\ v.variant_course_code \in WantedVariants(coursesData[1])
          /\ v.variant_course_code \in WantedVariants(coursesData[2])
          /\ v.course_id = CourseWithCode(coursesData[2].course_id).id

\* The configured skip-list, compared without regard to case.
OnSkipList(tag) == ToLowerCase(tag) \in {"can_take_virtual", "can_take_summer", "science"}

\* The run reported an error for an entry with the given code.
Reported(st, code) ==
    \E k \in 1..Len(st.errorDetails) : st.errorDetails[k].course_id = code

\* The tag rows of the course with the given code, in tables cs and t.
TagRowsOf(cs, t, code) ==
    SelectSeq(t, LAMBDA r : \E k \in Existing(cs, code) : r.course_id = cs[k].id)

\* An iteration of Pass 1 raises tagsCreated by exactly the number of tag
\* rows it inserted.
TagCountExact ==
    pc = "pass1" =>
        LET c == coursesData[idx]
            delta == stats'.tagsCreated - stats.tagsCreated
        IN  IF Existing(courses', c.course_id) # {} /\ Len(c.tags) > 0
            THEN delta = Len(TagRowsOf(courses', course_tags', c.course_id))
            ELSE delta = 0 /\ course_tags' = course_tags

\* When a cycle ends, no tag row of a snapshot course carries a tag on the
\* skip-list, and every tag of the course's entries that is not on the
\* skip-list has a tag row (entries reported as errors left out or not).
TagRowsMirror(unreportedOnly) ==
    pc' = "done" =>
        \A k \in 1..Len(coursesData') :
            LET c == coursesData'[k]
                rows == TagRowsOf(courses', course_tags', c.course_id)
            IN  Existing(courses', c.course_id) # {} =>
                    /\ \A r \in Range(rows) : ~OnSkipList(r.tag)
                    /\ \A j \in 1..Len(c.tags) :
                          (/\ unreportedOnly => ~Reported(stats', c.course_id)
                           /\ c.tags[j].symbol # UndefS
                           /\ ~OnSkipList(c.tags[j].symbol))
                              => \E r \in Range(rows) : r.tag = c.tags[j].symbol

uploadJson(data, resp, st) ==
    IF Len(data) = 0
    THEN [threw |-> FALSE, added |-> 0, updated |-> 0, markedNotOffered |-> 0]
    ELSE IF resp # "200"
    THEN [threw |-> TRUE, added |-> 0, updated |-> 0, markedNotOffered |-> 0]
    ELSE [threw |-> FALSE, added |-> st.coursesCreated, updated |-> st.coursesUpdated,
          markedNotOffered |-> st.coursesMarkedNotOffered]

\* C19 as stated: when a cycle ends having created and updated no course,
\* what the upload reports to the operator is a failure.  (The value
\* returned by uploadJson carries no error count, so a failure is the only
\* way for it not to be a success without errors.)
NeverSilentlySuccessful ==
    (pc = "done" /\ stats.coursesCreated + stats.coursesUpdated = 0) =>
        uploadJson(coursesData, response, stats).threw

-----------------------------------------------------------------------------
(* A cycle in which the database fails part of one course's child sync,    *)
(* followed by a cycle on the same snapshot                                *)

Stages == {"tags", "eligibility", "variants", "relationships"}

\* A fault strikes the child sync of entry k at one stage: the stage's delete
\* goes through or returns an error; the first `written` inserts go through
\* and the others return an error, which the loops ignore; or the failing
\* request throws, which ends the iteration in its catch block.
Faults ==
    [k : 1..MaxEntries, stage : Stages, written : 0..MaxWritten,
     deleted : BOOLEAN, threw : BOOLEAN]

Cleared(t, courseId, f) == IF f.deleted THEN DeleteOfCourse(t, courseId) ELSE t

Cut(list, f) == SubSeq(list, 1, f.written)

\* The number of inserts the stage attempts for entry c.
Attempts(c, stage) ==
    CASE stage = "tags" -> Len(c.tags)
      [] stage = "eligibility" ->
            IF c.grades_eligible = {} THEN 0
            ELSE Len(EligRows(NullId, CHOOSE a \in c.grades_eligible : TRUE))
      [] stage = "variants" -> Len(c.variants)
      [] stage = "relationships" -> Len(RelRows(NullId, {}, c))

\* The fault leaves at least one insert of a persisted course unwritten.
Strikes(data, f) ==
    /\ f.k <= Len(data)
    /\ data[f.k].course_id # Undef
    /\ data[f.k].name # UndefS
    /\ Attempts(data[f.k], f.stage) > f.written

\* One iteration of the Pass 1 loop struck by fault f.
FaultyPass1Step(d, st, m, c, f) ==
    LET up == UpsertCourse(d.courses, c)
        st1 == IF up.created
               THEN [st EXCEPT !.coursesCreated = @ + 1]
               ELSE [st EXCEPT !.coursesUpdated = @ + 1]
        tg == IF f.stage = "tags"
              THEN InsertTags([table |-> Cleared(d.course_tags, up.id, f),
                               created |-> 0, threw |-> FALSE],
                              up.id, Cut(c.tags, f), 1)
              ELSE SyncTags(d.course_tags, up.id, c.tags)
        tagsThrew == tg.threw \/ (f.stage = "tags" /\ f.threw)
        el == IF tagsThrew THEN [table |-> d.course_eligibility, created |-> 0]
              ELSE IF f.stage = "eligibility"
              THEN InsertElig([table |-> Cleared(d.course_eligibility, up.id, f),
                               created |-> 0],
                              Cut(EligRows(up.id, CHOOSE a \in c.grades_eligible : TRUE), f), 1)
              ELSE SyncEligibility(d.course_eligibility, up.id, c.grades_eligible)
        eligThrew == tagsThrew \/ (f.stage = "eligibility" /\ f.threw)
        vr == IF eligThrew
              THEN [table |-> d.course_variants, created |-> 0, updated |-> 0]
              ELSE IF f.stage = "variants"
              THEN InsertVariants([table |-> Cleared(d.course_variants, up.id, f),
                                   created |-> 0, updated |-> 0],
                                  up.id, Cut(c.variants, f), 1)
              ELSE SyncVariants(d.course_variants, up.id, c.variants)
        threw == eligThrew \/ (f.stage = "variants" /\ f.threw)
        st2 == [st1 EXCEPT !.tagsCreated = @ + tg.created,
                           !.eligibilityCreated = @ + el.created,
                           !.variantsCreated = @ + vr.created,
                           !.variantsUpdated = @ + vr.updated]
    IN  [db |-> [d EXCEPT !.courses = up.courses, !.course_tags = tg.table,
                          !.course_eligibility = el.table,
                          !.course_variants = vr.table],
         stats |-> IF threw THEN Caught(st2, c, UndefS) ELSE st2,
         map |-> MapSet(m, c.course_id, up.id)]

\* One iteration of the Pass 2 loop struck by fault f.
FaultyPass2Step(d, st, m, c, f) ==
    LET courseId == MapGet(m, c.course_id)
        rows == Cut(RelRows(courseId, m, c), f)
        st1 == [st EXCEPT !.relationshipsCreated = @ + Len(rows)]
    IN  [db |-> [d EXCEPT !.course_relationships =
                              Cleared(@, courseId, f) \o WithIds(rows, d.nextRelId),
                          !.nextRelId = @ + Len(rows)],
         stats |-> IF f.threw THEN Caught(st1, c, "relationships") ELSE st1]

RECURSIVE FaultyPass1Loop(_, _, _, _)
FaultyPass1Loop(x, data, k, f) ==
    IF k > Len(data) THEN x
    ELSE FaultyPass1Loop(IF k = f.k /\ f.stage # "relationships"
                         THEN FaultyPass1Step(x.db, x.stats, x.map, data[k], f)
                         ELSE Pass1Step(x.db, x.stats, x.map, data[k]),
                         data, k + 1, f)

RECURSIVE FaultyPass2Loop(_, _, _, _, _)
FaultyPass2Loop(x, m, data, k, f) ==
    IF k > Len(data) THEN x
    ELSE FaultyPass2Loop(IF k = f.k /\ f.stage = "relationships"
                         THEN FaultyPass2Step(x.db, x.stats, m, data[k], f)
                         ELSE Pass2Step(x.db, x.stats, m, data[k]),
                         m, data, k + 1, f)

\* A whole cycle on data, started on store d and struck by fault f: [db, stats].
FaultyCycleOn(d, data, f) ==
    LET p0 == Pass0Step(d, [NoStats EXCEPT !.total = Len(data)], data)
        p1 == FaultyPass1Loop([db |-> p0.db, stats |-> p0.stats, map |-> {}], data, 1, f)
    IN  FaultyPass2Loop([db |-> p1.db, stats |-> p1.stats], p1.map, data, 1, f)

\* The statistics importCoursesFromJson returns for a cycle without faults.
ReturnedStats(d, data) ==
    LET p0 == Pass0Step(d, [NoStats EXCEPT !.total = Len(data)], data)
        p1 == Pass1Loop([db |-> p0.db, stats |-> p0.stats, map |-> {}], data, 1)
    IN  Pass2Loop([db |-> p1.db, stats |-> p1.stats], p1.map, data, 1).stats

ContentOf(d) ==
    [courses |-> d.courses, course_tags |-> d.course_tags,
     course_eligibility |-> d.course_eligibility, course_variants |-> d.course_variants,
     course_relationships |->
         [k \in 1..Len(d.course_relationships) |-> RelContent(d.course_relationships[k])]]

InitHeal == Init

\* The cycle struck by a fault.  prev keeps, for the properties, what one
\* cycle without faults would have left (content), the errors it would
\* have counted (errors), and what this cycle leaves (partial).
FaultyCycle ==
    /\ pc = "idle"
    /\ \E data \in Snapshots, f \in Faults :
          /\ Strikes(data, f)
          /\ LET n == FaultyCycleOn(Db, data, f)
             IN  /\ SetDb(n.db)
                 /\ stats' = n.stats
                 /\ prev' = [valid |-> TRUE, data |-> data,
                             content |-> ContentOf(importCoursesFromJson(Db, data)),
                             errors |-> ReturnedStats(Db, data).errors,
                             partial |-> ContentOf(n.db)]
          /\ coursesData' = data
          /\ idx' = Len(data)
    /\ courseCodeToId' = {}
    /\ pc' = "faulted"
    /\ response' = "200"
    /\ before' = courses
    /\ runs' = runs + 1
    /\ UNCHANGED <<env, reruns, edits, admin>>

\* The next cycle on the same snapshot, with no fault.
HealCycle ==
    /\ pc = "faulted"
    /\ SetDb(importCoursesFromJson(Db, coursesData))
    /\ stats' = ReturnedStats(Db, coursesData)
    /\ pc' = "healed"
    /\ reruns' = reruns + 1
    /\ UNCHANGED <<env, coursesData, idx, courseCodeToId, response, runs, edits,
                   admin, before, prev>>

NextHeal ==
    \/ FaultyCycle
    \/ HealCycle

SpecHeal == InitHeal /\ [][NextHeal]_vars

\* The child rows of the course with the given code, in a store content.
ChildrenOf(cont, code) ==
    LET ids == {cont.courses[k].id : k \in Existing(cont.courses, code)}
        of(t) == SelectSeq(t, LAMBDA r : r.course_id \in ids)
    IN  [tags |-> of(cont.course_tags), eligibility |-> of(cont.course_eligibility),
         variants |-> of(cont.course_variants),
         relationships |-> of(cont.course_relationships)]

SameChildren(a, b) ==
    /\ SameRows(a.tags, b.tags)
    /\ SameRows(a.eligibility, b.eligibility)
    /\ SameRows(a.variants, b.variants)
    /\ SameRows(a.relationships, b.relationships)

\* C20: when a cycle on a snapshot was struck by a failure in the middle of
\* a course's child sync, and the next cycle on the same snapshot runs
\* without failures, the child rows of every snapshot course are, after
\* that cycle, those a single cycle on the snapshot would have left had
\* it run, free of faults and of errors, in place of the struck one.
SelfHealing ==
    (pc = "healed" /\ stats.errors = 0 /\ prev.errors = 0) =>
        \A code \in Codes(coursesData) :
            SameChildren(ChildrenOf(Content, code), ChildrenOf(prev.content, code))

\* A healed store whose struck course had lost child rows in the struck
\* cycle, and a second snapshot course with child rows of its own.
SelfHealingWitness ==
    /\ pc = "healed"
    /\ stats.errors = 0
    /\ prev.errors = 0
    /\ Len(coursesData) = 2
    /\ \E code \in Codes(coursesData) :
          /\ ~SameChildren(ChildrenOf(prev.partial, code), ChildrenOf(prev.content, code))
          /\ Len(ChildrenOf(Content, code).relationships) > 0
          /\ Len(ChildrenOf(Content, code).variants) > 0

-----------------------------------------------------------------------------
(* Cycles on one course whose entry lists its eligibility by grade *)

TermOfferings == {Term(1, "Fall", TRUE), Term(2, "Spring", FALSE)}

\* The grade entries of the uploaded JSON: a grade with up to MaxTerms offerings.
GradeEntries == {Grade(g, t) : g \in {"9", "10"}, t \in SeqsUpTo(TermOfferings, MaxTerms)}

\* A cycle on a snapshot of one entry, with any list of grade entries.
ImportGrades ==
    /\ pc = "idle"
    /\ \E grades \in SeqsUpTo(GradeEntries, MaxGrades) :
          LET data == <<[eAlg EXCEPT !.grades_eligible = {grades}]>>
          IN  /\ SetDb(importCoursesFromJson(Db, data))
              /\ stats' = ReturnedStats(Db, data)
              /\ coursesData' = data
    /\ idx' = 1
    /\ pc' = "done"
    /\ response' = "200"
    /\ before' = courses
    /\ runs' = runs + 1
    /\ UNCHANGED <<env, courseCodeToId, reruns, edits, admin, prev>>

NextElig == ImportGrades

SpecElig == Init /\ [][NextElig]_vars

\* The eligibility rows of the course with the given code.
EligRowsOfCode(code) ==
    SelectSeq(course_eligibility,
              LAMBDA r : \E k \in Existing(courses, code) : r.course_id = courses[k].id)

\* C22 as stated: after a cycle, a snapshot course whose entry lists its
\* eligibility has, for each grade entry with term offerings, exactly one
\* row per (grade, term), carrying that term's can-plan flag; for each grade
\* entry without offerings, exactly one row with a null term and can-plan
\* true; and no two of its rows share (grade, term number or null).
EligibilityGeneration ==
    pc = "done" =>
        \A k \in 1..Len(coursesData) :
            LET c == coursesData[k]
                rows == EligRowsOfCode(c.course_id)
                At(g, n) == {j \in 1..Len(rows) :
                                rows[j].grade = g /\ rows[j].term_number = n}
            IN  (/\ Existing(courses, c.course_id) # {}
                 /\ c.grades_eligible # {}
                 /\ c = LastEntry(c.course_id)
                 /\ stats.errors = 0) =>
                    LET grades == CHOOSE a \in c.grades_eligible : TRUE
                    IN  /\ \A i \in 1..Len(grades) :
                              LET terms == grades[i].academic_term_offered
                              IN  IF Len(terms) > 0
                                  THEN \A t \in 1..Len(terms) :
                                          /\ Cardinality(At(grades[i].grade,
                                                            terms[t].academic_term)) = 1
                                          /\ \A j \in At(grades[i].grade, terms[t].academic_term) :
                                                rows[j].can_plan = terms[t].can_plan
                                  ELSE /\ Cardinality(At(grades[i].grade, NullTerm)) = 1
                                       /\ \A j \in At(grades[i].grade, NullTerm) :
                                             rows[j].can_plan
                        /\ \A i, j \in 1..Len(rows) :
                              (i # j) => ~(/\ rows[i].grade = rows[j].grade
                                           /\ rows[i].term_number = rows[j].term_number)

-----------------------------------------------------------------------------
(* Two requests for the same snapshot handled at the same time.  In this   *)
(* specification pc, idx, stats, courseCodeToId and response hold one      *)
(* value per request.  A step is one iteration of a pass, with the delete  *)
(* and the inserts of Pass 2 as two steps.                                 *)

Procs == {1, 2}

\* Mutant: the endpoint refuses a request while another import is running.
EndpointLocked(p) ==
    /\ ~ConfigMissing(env)
    /\ \A q \in Procs \ {p} : pc[q] \in {"idle", "done"}

\* What the endpoint checks before it calls importCoursesFromJson: the
\* credentials (and the body).  It looks at no other request.
EndpointAdmits(p) == ~ConfigMissing(env)

InitConc ==
    /\ \E h \in SeedHistories : StoreIs(AfterCycles(EmptyDb, h))
    /\ env = FullEnv
    /\ pc = [p \in Procs |-> "idle"]
    /\ coursesData = <<>>
    /\ idx = [p \in Procs |-> 0]
    /\ stats = [p \in Procs |-> NoStats]
    /\ courseCodeToId = [p \in Procs |-> {}]
    /\ response = [p \in Procs |-> "none"]
    /\ runs = 0
    /\ reruns = 0
    /\ edits = 0
    /\ adminOps = 0
    /\ before = <<>>
    /\ prev = NoPrev
    /\ lastResolve = NoResolve
    /\ lastCheck = NoCheck

\* The first request carries any non-empty snapshot, the second the same one.
StartCycle(p) ==
    /\ pc[p] = "idle"
    /\ EndpointAdmits(p)
    /\ \E data \in (IF coursesData = <<>> THEN Snapshots \ {<<>>} ELSE {coursesData}) :
          /\ coursesData' = data
          /\ stats' = [stats EXCEPT ![p] = [NoStats EXCEPT !.total = Len(data)]]
    /\ pc' = [pc EXCEPT ![p] = "pass0"]
    /\ idx' = [idx EXCEPT ![p] = 1]
    /\ courseCodeToId' = [courseCodeToId EXCEPT ![p] = {}]
    /\ runs' = runs + 1
    /\ UNCHANGED <<store, env, response, reruns, edits, admin, before, prev>>

ConcPass0(p) ==
    /\ pc[p] = "pass0"
    /\ LET n == Pass0Step(Db, stats[p], coursesData)
       IN  SetDb(n.db) /\ stats' = [stats EXCEPT ![p] = n.stats]
    /\ pc' = [pc EXCEPT ![p] = "pass1"]
    /\ UNCHANGED <<env, coursesData, idx, courseCodeToId, response, runs, reruns,
                   edits, admin, before, prev>>

ConcPass1(p) ==
    /\ pc[p] = "pass1"
    /\ LET n == Pass1Step(Db, stats[p], courseCodeToId[p], coursesData[idx[p]])
       IN  /\ SetDb(n.db)
           /\ stats' = [stats EXCEPT ![p] = n.stats]
           /\ courseCodeToId' = [courseCodeToId EXCEPT ![p] = n.map]
    /\ IF idx[p] = Len(coursesData)
       THEN pc' = [pc EXCEPT ![p] = "pass2"] /\ idx' = [idx EXCEPT ![p] = 1]
       ELSE pc' = pc /\ idx' = [idx EXCEPT ![p] = @ + 1]
    /\ UNCHANGED <<env, coursesData, response, runs, reruns, edits, admin, before, prev>>

ConcAdvance2(p) ==
    IF idx[p] = Len(coursesData)
    THEN /\ pc' = [pc EXCEPT ![p] = "done"]
         /\ idx' = idx
         /\ response' = [response EXCEPT ![p] = "200"]
    ELSE /\ pc' = [pc EXCEPT ![p] = "pass2"]
         /\ idx' = [idx EXCEPT ![p] = @ + 1]
         /\ response' = response

ConcPass2Skip(p) ==
    /\ pc[p] = "pass2"
    /\ MapGet(courseCodeToId[p], coursesData[idx[p]].course_id) = NullId
    /\ ConcAdvance2(p)
    /\ UNCHANGED <<store, env, coursesData, stats, courseCodeToId, runs, reruns,
                   edits, admin, before, prev>>

ConcPass2Delete(p) ==
    /\ pc[p] = "pass2"
    /\ MapGet(courseCodeToId[p], coursesData[idx[p]].course_id) # NullId
    /\ SetDb(Pass2DeleteStep(Db, MapGet(courseCodeToId[p], coursesData[idx[p]].course_id)))
    /\ pc' = [pc EXCEPT ![p] = "pass2ins"]
    /\ UNCHANGED <<env, coursesData, idx, stats, courseCodeToId, response, runs,
                   reruns, edits, admin, before, prev>>

ConcPass2Insert(p) ==
    /\ pc[p] = "pass2ins"
    /\ LET n == Pass2InsertStep(Db, stats[p], courseCodeToId[p], coursesData[idx[p]])
       IN  SetDb(n.db) /\ stats' = [stats EXCEPT ![p] = n.stats]
    /\ ConcAdvance2(p)
    /\ UNCHANGED <<env, coursesData, courseCodeToId, runs, reruns, edits, admin,
                   before, prev>>

NextConc ==
    \E p \in Procs :
        \/ StartCycle(p)
        \/ ConcPass0(p)
        \/ ConcPass1(p)
        \/ ConcPass2Skip(p)
        \/ ConcPass2Delete(p)
        \/ ConcPass2Insert(p)

SpecConc == InitConc /\ [][NextConc]_vars

\* C25: the endpoint admits a request while another cycle is in progress;
\* and when both cycles on the snapshot have ended without errors, a
\* snapshot course has each of its relationship rows at least once and at
\* most twice.
ConcurrentCycles ==
    /\ \A p \in Procs :
          (pc[p] = "idle" /\ \E q \in Procs : pc[q] \notin {"idle", "done"})
              => ENABLED StartCycle(p)
    /\ (\A p \in Procs : pc[p] = "done" /\ stats[p].errors = 0) =>
          \A code \in UpsertedCodes :
              LET n == Len(AltsOf(LastEntry(code)))
                  rows == RowsOf(course_relationships, CourseWithCode(code).id)
              IN  n <= Len(rows) /\ Len(rows) <= 2 * n

\* Both cycles have ended without errors and a snapshot course has every
\* relationship row of its entry twice.
ConcurrentCyclesWitness ==
    /\ \A p \in Procs : pc[p] = "done" /\ stats[p].errors = 0
    /\ \E code \in UpsertedCodes :
          LET n == Len(AltsOf(LastEntry(code)))
              rows == RowsOf(course_relationships, CourseWithCode(code).id)
          IN  /\ n > 0
              /\ Len(rows) = 2 * n
              /\ \A r \in Range(rows) :
                    Cardinality({k \in 1..Len(rows) : RelContent(rows[k]) = RelContent(r)}) = 2

-----------------------------------------------------------------------------
(* The admin repair actions and their reference resolver *)

\* The characters of a reference typed by an admin: digits and letters of
\* both cases as they occur in course codes, and the two characters that
\* LIKE reads as wildcards.
RefChars == {"7", "8", "A", "a", "_", "%"}

References == SeqsUpTo(RefChars, MaxRefLen)

AllCodes == <<c7, c7A, c7B, c8>>

\* A catalog holding exactly the given codes (external_course_code is UNIQUE).
CatalogOf(S) ==
    LET codes == SelectSeq(AllCodes, LAMBDA c : c \in S)
    IN  [k \in 1..Len(codes) |->
            [id |-> k, external_course_code |-> codes[k], name |-> "Course",
             credits |-> 1, description |-> Null, notes |-> Null, is_offered |-> TRUE]]

AdminCatalogs ==
    {CatalogOf(S) : S \in {T \in SUBSET Range(AllCodes) :
                              T # {} /\ Cardinality(T) <= MaxCatalog}}

\* s LIKE pattern: % matches any run of characters, _ any one character,
\* every other character itself (case-sensitively).
RECURSIVE LikeMatch(_, _)
LikeMatch(pattern, s) ==
    IF Len(pattern) = 0 THEN Len(s) = 0
    ELSE IF Head(pattern) = "%"
         THEN LikeMatch(Tail(pattern), s) \/ (Len(s) > 0 /\ LikeMatch(pattern, Tail(s)))
         ELSE /\ Len(s) > 0
              /\ (Head(pattern) = "_" \/ Head(pattern) = Head(s))
              /\ LikeMatch(Tail(pattern), Tail(s))

\* .select('id').eq('external_course_code', code)
ExactMatches(cs, code) ==
    {cs[k].id : k \in {j \in 1..Len(cs) : cs[j].external_course_code = code}}

\* .select('id').like('external_course_code', `${code}%`)
PrefixMatches(cs, code) ==
    {cs[k].id : k \in {j \in 1..Len(cs) :
                          LikeMatch(Append(code, "%"), cs[j].external_course_code)}}

\* The ids updateRelationshipCourseCode may resolve to: the exact match if
\* there is one, else whichever row the prefix query's limit(1) returns,
\* else null.
ResolvedByUpdate(cs, code) ==
    IF ExactMatches(cs, code) # {} THEN ExactMatches(cs, code)
    ELSE IF PrefixMatches(cs, code) # {} THEN PrefixMatches(cs, code)
    ELSE {NullId}

\* The same for addCourseRelationshipByCode, which runs the prefix query
\* only for a non-empty code.
ResolvedByAdd(cs, code) ==
    IF ExactMatches(cs, code) # {} THEN ExactMatches(cs, code)
    ELSE IF Len(code) > 0 /\ PrefixMatches(cs, code) # {} THEN PrefixMatches(cs, code)
    ELSE {NullId}

\* courseCode || null
CodeOrNull(code) == IF Len(code) = 0 THEN NullCode ELSE code

InitAdmin ==
    /\ \E cat \in AdminCatalogs : StoreIs([EmptyDb EXCEPT !.courses = cat])
    /\ IdleInit

\* The body of updateRelationshipCourseCode for relationship row k.
UpdateResolved(k, courseCode) ==
    \E resolvedId \in ResolvedByUpdate(courses, courseCode) :
        /\ course_relationships' =
               [course_relationships EXCEPT
                   ![k].related_course_code = CodeOrNull(courseCode),
                   ![k].related_course_id = resolvedId]
        /\ lastResolve' = [op |-> "update", ref |-> courseCode,
                           relId |-> course_relationships[k].id]

\* The body of addCourseRelationshipByCode; an argument left out is null
\* in the inserted row (logicType || null, groupId || null).
InsertResolved(courseId, relatedCourseCode, logicType, groupId) ==
    \E resolvedId \in ResolvedByAdd(courses, relatedCourseCode) :
        /\ course_relationships' =
               Append(course_relationships,
                      [id |-> nextRelId,
                       course_id |-> courseId,
                       related_course_id |-> resolvedId,
                       related_course_code |-> CodeOrNull(relatedCourseCode),
                       relationship_type |-> "prerequisite",
                       group_id |-> groupId,
                       logic_type |-> logicType,
                       description |-> Null])
        /\ lastResolve' = [op |-> "add", ref |-> relatedCourseCode,
                           relId |-> nextRelId]

updateRelationshipCourseCode ==
    /\ adminOps < MaxAdminOps
    /\ \E k \in 1..Len(course_relationships), courseCode \in References :
          UpdateResolved(k, courseCode)
    /\ adminOps' = adminOps + 1
    /\ UNCHANGED <<courses, course_tags, course_eligibility, course_variants, nextRelId,
                   env, run, response, runs, reruns, edits, before, prev, lastCheck>>

addCourseRelationshipByCode ==
    /\ adminOps < MaxAdminOps
    /\ \E c \in 1..Len(courses), relatedCourseCode \in References :
          InsertResolved(courses[c].id, relatedCourseCode, Null, NullCode)
    /\ nextRelId' = nextRelId + 1
    /\ adminOps' = adminOps + 1
    /\ UNCHANGED <<courses, course_tags, course_eligibility, course_variants,
                   env, run, response, runs, reruns, edits, before, prev, lastCheck>>

NextAdmin ==
    \/ updateRelationshipCourseCode
    \/ addCourseRelationshipByCode

SpecAdmin == InitAdmin /\ [][NextAdmin]_vars

-----------------------------------------------------------------------------
(* Properties of the resolver *)

\* The relationship row written by the last repair action.
ResolvedRow == CHOOSE r \in Range(course_relationships) : r.id = lastResolve.relId

\* C10 as stated: after a repair action with reference r, if a course has
\* code r the row points to that course, and if no course code equals or
\* starts with r the row's related_course_id is NULL.
ResolverPrecedence ==
    lastResolve.op # "none" =>
        /\ ExactMatches(courses, lastResolve.ref) # {}
              => ResolvedRow.related_course_id \in ExactMatches(courses, lastResolve.ref)
        /\ (\A r \in Range(courses) : ~StartsWith(r.external_course_code, lastResolve.ref))
              => ResolvedRow.related_course_id = NullId

\* The courses whose code starts with the reference.
StartingWith(ref) ==
    {r \in Range(courses) : StartsWith(r.external_course_code, ref)}

\* C11 as stated: two repair actions given the same reference, which no
\* course code equals and several course codes start with, link their rows
\* to the same course.
ResolverDeterminism ==
    \A r1, r2 \in Range(course_relationships) :
        (/\ r1.related_course_code = r2.related_course_code
         /\ r1.related_course_code # NullCode
         /\ ExactMatches(courses, r1.related_course_code) = {}
         /\ Cardinality(StartingWith(r1.related_course_code)) >= 2)
            => r1.related_course_id = r2.related_course_id

\* C24 as stated: a call of updateRelationshipCourseCode with relationship
\* id r and code c leaves row r with related_course_code = c and with
\* related_course_id = the course whose code equals c, else a course whose
\* code starts with c, else NULL (also when the row was linked before);
\* the row's other columns and every other row are unchanged.
RepairFrame ==
    [][(lastResolve'.op = "update" /\ adminOps' # adminOps) =>
          LET c == lastResolve'.ref
              k == CHOOSE j \in 1..Len(course_relationships) :
                      course_relationships[j].id = lastResolve'.relId
              old == course_relationships[k]
              new == course_relationships'[k]
          IN  /\ Len(course_relationships') = Len(course_relationships)
              /\ new.related_course_code = c
              /\ IF ExactMatches(courses, c) # {}
                 THEN new.related_course_id \in ExactMatches(courses, c)
                 ELSE IF StartingWith(c) # {}
                 THEN new.related_course_id \in {q.id : q \in StartingWith(c)}
                 ELSE new.related_course_id = NullId
              /\ new.id = old.id
              /\ new.course_id = old.course_id
              /\ new.relationship_type = old.relationship_type
              /\ new.group_id = old.group_id
              /\ new.logic_type = old.logic_type
              /\ new.description = old.description
              /\ \A j \in 1..Len(course_relationships) :
                    j # k => course_relationships'[j] = course_relationships[j]
              /\ UNCHANGED <<courses, course_tags, course_eligibility, course_variants>>]_vars

\* C27 as stated: a relationship row written by updateRelationshipCourseCode
\* or addCourseRelationshipByCode with a non-null related_course_id has a
\* non-null related_course_code, and the code of the course it points to
\* equals that code or starts with it.
ResolverSoundness ==
    \A r \in Range(course_relationships) :
        r.related_course_id # NullId =>
            /\ r.related_course_code # NullCode
            /\ \E q \in Range(courses) :
                  /\ q.id = r.related_course_id
                  /\ StartsWith(q.external_course_code, r.related_course_code)

-----------------------------------------------------------------------------
(* The prerequisite evaluator: checkPrerequisitesMet *)

\* Mutant: the query does not filter on the relationship type.
RowsOfAnyType(rels, courseId) == SelectSeq(rels, LAMBDA r : r.course_id = courseId)

\* .from('course_relationships').select(...).eq('course_id', courseId)
\*     .eq('relationship_type', 'prerequisite')
PrerequisiteRows(rels, courseId) ==
    SelectSeq(rels, LAMBDA r : r.course_id = courseId /\ r.relationship_type = "prerequisite")

\* Mutant: the rows without a group id share one key.
GidShared(rel) == IF rel.group_id = NullCode THEN <<"id", 0>> ELSE rel.group_id

\* rel.group_id || rel.id
Gid(rel) == IF rel.group_id = NullCode THEN <<"id", rel.id>> ELSE rel.group_id

\* The keys of the groups object, in the order in which the loop creates them.
RECURSIVE GroupKeys(_, _, _)
GroupKeys(data, k, seen) ==
    IF k > Len(data) THEN seen
    ELSE IF \E j \in 1..Len(seen) : seen[j] = Gid(data[k])
         THEN GroupKeys(data, k + 1, seen)
         ELSE GroupKeys(data, k + 1, Append(seen, Gid(data[k])))

\* groups[gid]: logicType comes from the first row of the group
\* (rel.logic_type || 'OR'), alternatives are the rows in order.
GroupOf(data, gid) ==
    LET alts == SelectSeq(data, LAMBDA r : Gid(r) = gid)
    IN  [logicType |-> IF alts[1].logic_type = Null THEN "OR" ELSE alts[1].logic_type,
         alternatives |-> alts]

\* Mutant: only the first completed code is tested.
isSatisfiedByFirst(rel, completedCourseCodes) ==
    /\ rel.related_course_code # NullCode
    /\ Len(completedCourseCodes) > 0
    /\ StartsWith(completedCourseCodes[1], rel.related_course_code)

\* Mutant: a completed code that is a prefix of the row's code also counts.
isSatisfiedEitherWay(rel, completedCourseCodes) ==
    /\ rel.related_course_code # NullCode
    /\ \E k \in 1..Len(completedCourseCodes) :
          \/ StartsWith(completedCourseCodes[k], rel.related_course_code)
          \/ StartsWith(rel.related_course_code, completedCourseCodes[k])

\* isSatisfied: a row without a code is not satisfied; otherwise some
\* completed code must start with the row's code.
isSatisfied(rel, completedCourseCodes) ==
    /\ rel.related_course_code # NullCode
    /\ Len(rel.related_course_code) > 0
    /\ \E k \in 1..Len(completedCourseCodes) :
          StartsWith(completedCourseCodes[k], rel.related_course_code)

\* a.description || a.related_course_code || '?', as a string of characters
\* (a description is one unit of text).
AltLabel(a) ==
    IF a.description # Null THEN <<a.description>>
    ELSE IF a.related_course_code # NullCode THEN a.related_course_code
    ELSE <<"?">>

\* parts.join(sep)
RECURSIVE Join(_, _)
Join(parts, sep) ==
    IF Len(parts) = 0 THEN <<>>
    ELSE IF Len(parts) = 1 THEN parts[1]
    ELSE parts[1] \o <<sep>> \o Join(Tail(parts), sep)

\* Mutant: every group is evaluated as an OR group.
GroupMetAny(group, completedCourseCodes) ==
    \E k \in 1..Len(group.alternatives) :
        isSatisfied(group.alternatives[k], completedCourseCodes)

GroupMet(group, completedCourseCodes) ==
    IF group.logicType = "AND"
    THEN \A k \in 1..Len(group.alternatives) :
            isSatisfied(group.alternatives[k], completedCourseCodes)
    ELSE \E k \in 1..Len(group.alternatives) :
            isSatisfied(group.alternatives[k], completedCourseCodes)

GroupDesc(group) ==
    Join([k \in 1..Len(group.alternatives) |-> AltLabel(group.alternatives[k])],
         IF group.logicType = "AND" THEN " AND " ELSE " or ")

\* Mutant: the loop stops at the first unmet group.
RECURSIVE UnmetFirstOnly(_, _, _, _)
UnmetFirstOnly(data, keys, k, completedCourseCodes) ==
    IF k > Len(keys) THEN <<>>
    ELSE IF GroupMet(GroupOf(data, keys[k]), completedCourseCodes)
         THEN UnmetFirstOnly(data, keys, k + 1, completedCourseCodes)
         ELSE <<GroupDesc(GroupOf(data, keys[k]))>>

\* The loop over Object.entries(groups): the descriptions of the unmet groups.
RECURSIVE UnmetFrom(_, _, _, _)
UnmetFrom(data, keys, k, completedCourseCodes) ==
    IF k > Len(keys) THEN <<>>
    ELSE LET group == GroupOf(data, keys[k])
             rest == UnmetFrom(data, keys, k + 1, completedCourseCodes)
         IN  IF GroupMet(group, completedCourseCodes) THEN rest
             ELSE <<GroupDesc(group)>> \o rest

checkPrerequisitesMet(rels, courseId, completedCourseCodes) ==
    LET data == PrerequisiteRows(rels, courseId)
        unmet == UnmetFrom(data, GroupKeys(data, 1, <<>>), 1, completedCourseCodes)
    IN  IF Len(data) = 0 THEN [met |-> TRUE, unmet |-> <<>>]
        ELSE [met |-> Len(unmet) = 0, unmet |-> unmet]

c07A == <<"0", "7", "A">>

\* The relationship rows of the evaluator specification, each as
\* addCourseRelationshipByCode or addCourseRelationship can insert it: the
\* prerequisite rows of course 1 with or without a group id, a logic type
\* and a code, a corequisite row of course 1, and a prerequisite row of
\* course 2.
EvalRow(courseId, type, groupId, logicType, code) ==
    [course_id |-> courseId, related_course_id |-> NullId,
     related_course_code |-> code, relationship_type |-> type,
     group_id |-> groupId, logic_type |-> logicType, description |-> Null]

EvalRows ==
    {EvalRow(1, "prerequisite", g, l, c) :
        g \in {NullCode, <<"prereq_group_", 0>>}, l \in {Null, "AND", "OR"},
        c \in {NullCode, c7, c07A}}
      \cup {EvalRow(1, "corequisite", <<"coreq_group_", 0>>, "AND", c7),
            EvalRow(2, "prerequisite", <<"prereq_group_", 0>>, "OR", c7)}

\* The lists of completed course codes handed to the evaluator.
CompletedLists == SeqsUpTo({c7, c7A, c7B, <<"0">>}, MaxCompleted)

InitEval ==
    /\ \E rows \in SeqsUpTo(EvalRows, MaxRelRows) :
          StoreIs([EmptyDb EXCEPT !.courses = CatalogOf({c7, c8}),
                                  !.course_relationships = WithIds(rows, 1),
                                  !.nextRelId = Len(rows) + 1])
    /\ IdleInit

\* checkPrerequisitesMet(courseId, completedCourseCodes).  The function reads
\* the store and writes nothing, so one call per behaviour shows all it does.
CheckPrerequisites ==
    /\ ~lastCheck.valid
    /\ \E c \in 1..Len(courses), completedCourseCodes \in CompletedLists :
          LET result == checkPrerequisitesMet(course_relationships, courses[c].id,
                                              completedCourseCodes)
          IN  lastCheck' = [valid |-> TRUE, courseId |-> courses[c].id,
                            completed |-> completedCourseCodes,
                            met |-> result.met, unmet |-> result.unmet]
    /\ UNCHANGED <<store, env, run, response, runs, reruns, edits, adminOps,
                   lastResolve, before, prev>>

NextEval == CheckPrerequisites

SpecEval == InitEval /\ [][NextEval]_vars

-----------------------------------------------------------------------------
(* The evaluator called by a student's session while the import runs *)

\* The completed codes of the sessions: none, or the codes an entry refers to.
SessionLists == {<<>>, <<c7, c8>>, <<c8, c7A>>}

\* checkPrerequisitesMet(courseId, completedCourseCodes), called at any
\* point of a cycle or between cycles.  lastCheck also keeps where the
\* import was (at) and how many cycles had started (cycle).
CheckDuringCycle ==
    /\ ~lastCheck.valid
    /\ \E c \in 1..Len(courses), completedCourseCodes \in SessionLists :
          LET result == checkPrerequisitesMet(course_relationships, courses[c].id,
                                              completedCourseCodes)
          IN  lastCheck' = [valid |-> TRUE, courseId |-> courses[c].id,
                            completed |-> completedCourseCodes,
                            met |-> result.met, unmet |-> result.unmet,
                            at |-> pc, cycle |-> runs + reruns]
    /\ UNCHANGED <<store, env, run, response, runs, reruns, edits, adminOps,
                   lastResolve, before, prev>>

NextRead ==
    \/ Next
    \/ CheckDuringCycle

SpecRead == Init /\ [][NextRead]_vars

-----------------------------------------------------------------------------
(* Properties of the evaluator *)

\* The prerequisite rows of the course of the last evaluation.
TargetRows ==
    {r \in Range(course_relationships) :
        r.course_id = lastCheck.courseId /\ r.relationship_type = "prerequisite"}

\* A row is satisfied by the completed codes: it has a code and some
\* completed code starts with it.
AltSatisfied(r) ==
    /\ r.related_course_code # NullCode
    /\ \E k \in 1..Len(lastCheck.completed) :
          LET cc == lastCheck.completed[k]
          IN  /\ Len(cc) >= Len(r.related_course_code)
              /\ \A j \in 1..Len(r.related_course_code) : cc[j] = r.related_course_code[j]

\* The clause a row belongs to: its group id, or the row alone.
ClauseOf(r) ==
    IF r.group_id = NullCode THEN {r}
    ELSE {q \in TargetRows : q.group_id = r.group_id}

Clauses == {ClauseOf(r) : r \in TargetRows}

\* The logic type of a clause whose rows agree on it (no logic type reads OR).
LogicOf(clause) ==
    IF \A r \in clause : r.logic_type = "AND" THEN "AND"
    ELSE IF \A r \in clause : r.logic_type \in {"OR", Null} THEN "OR"
    ELSE "mixed"

ClauseSatisfied(clause) ==
    IF LogicOf(clause) = "AND" THEN \A r \in clause : AltSatisfied(r)
    ELSE \E r \in clause : AltSatisfied(r)

\* C12: for a course without any relationship row of type prerequisite the
\* evaluator answers met = true and unmet = [], whatever the completed codes.
VacuousSatisfaction ==
    (lastCheck.valid /\ TargetRows = {}) =>
        (lastCheck.met /\ lastCheck.unmet = <<>>)

\* An evaluation, with no completed code, of a course whose only
\* relationship row is a corequisite.
VacuousWitness ==
    /\ lastCheck.valid
    /\ lastCheck.completed = <<>>
    /\ TargetRows = {}
    /\ \E r \in Range(course_relationships) :
          r.course_id = lastCheck.courseId /\ r.relationship_type = "corequisite"

\* C13: when the prerequisite rows of the course form one group, an AND
\* group is met iff every alternative is satisfied and an OR group is met
\* iff at least one alternative is satisfied.
GroupSemantics ==
    (lastCheck.valid /\ Cardinality(Clauses) = 1) =>
        \A clause \in Clauses :
            /\ (\A r \in clause : r.logic_type = "AND")
                  => (lastCheck.met <=> \A r \in clause : AltSatisfied(r))
            /\ (\A r \in clause : r.logic_type = "OR")
                  => (lastCheck.met <=> \E r \in clause : AltSatisfied(r))

\* An AND group of two alternatives of which the completed codes satisfy
\* one only: the group is unmet.
GroupSemanticsWitness ==
    /\ lastCheck.valid
    /\ Cardinality(Clauses) = 1
    /\ \E clause \in Clauses :
          /\ Cardinality(clause) >= 2
          /\ \A r \in clause : r.logic_type = "AND"
          /\ \E r \in clause : AltSatisfied(r)
          /\ \E r \in clause : ~AltSatisfied(r)
    /\ ~lastCheck.met

\* C14: a course with a single prerequisite row is met iff the row has a
\* code and some completed code starts with that code; a completed code
\* that the row's code merely contains does not count; and a course with a
\* group all of whose rows lack a code is never met.
AlternativeSatisfaction ==
    lastCheck.valid =>
        /\ Cardinality(TargetRows) = 1
              => (lastCheck.met <=> \A r \in TargetRows : AltSatisfied(r))
        /\ (\E clause \in Clauses : \A r \in clause : r.related_course_code = NullCode)
              => ~lastCheck.met

\* A single row with code 07A, evaluated against a proper prefix and a
\* suffix of that code: unmet.
AlternativeWitness ==
    /\ lastCheck.valid
    /\ Cardinality(TargetRows) = 1
    /\ \A r \in TargetRows : r.related_course_code = c07A
    /\ lastCheck.completed = <<<<"0">>, c7A>>
    /\ ~lastCheck.met

\* C15: when the rows of every group agree on the logic type, met is true
\* iff every group is satisfied, unmet has one entry per unsatisfied group,
\* and met is true iff unmet is empty.
OverallResult ==
    (lastCheck.valid /\ \A clause \in Clauses : LogicOf(clause) # "mixed") =>
        /\ lastCheck.met <=> \A clause \in Clauses : ClauseSatisfied(clause)
        /\ Len(lastCheck.unmet) = Cardinality({clause \in Clauses : ~ClauseSatisfied(clause)})
        /\ lastCheck.met <=> lastCheck.unmet = <<>>

\* Three groups of which two are unsatisfied.
OverallWitness ==
    /\ lastCheck.valid
    /\ Cardinality(Clauses) = 3
    /\ \A clause \in Clauses : LogicOf(clause) # "mixed"
    /\ Cardinality({clause \in Clauses : ~ClauseSatisfied(clause)}) = 2
    /\ Len(lastCheck.unmet) = 2

\* The lists that hold the same codes as the last evaluation's list, in any
\* order and with any repetition, up to one element longer than the bound.
Rearrangements ==
    {p \in SeqsUpTo(Range(lastCheck.completed), MaxCompleted + 1) :
        Range(p) = Range(lastCheck.completed)}

\* C16: the evaluator returns the same met and the same unmet list for every
\* permutation and every duplication of the completed codes.
OrderIndependence ==
    lastCheck.valid =>
        \A p \in Rearrangements :
            LET again == checkPrerequisitesMet(course_relationships, lastCheck.courseId, p)
            IN  again.met = lastCheck.met /\ again.unmet = lastCheck.unmet

\* Two different completed codes of which only the second satisfies the
\* course's requirement, and one unmet group remains.
OrderWitness ==
    /\ lastCheck.valid
    /\ Len(lastCheck.completed) = 2
    /\ lastCheck.completed[1] # lastCheck.completed[2]
    /\ Len(lastCheck.unmet) = 1
    /\ \E r \in TargetRows :
          /\ r.related_course_code # NullCode
          /\ ~StartsWith(lastCheck.completed[1], r.related_course_code)
          /\ StartsWith(lastCheck.completed[2], r.related_course_code)


\* The number of alternatives joined in one entry of the unmet list.
AlternativesIn(desc) ==
    1 + Cardinality({i \in 1..Len(desc) : desc[i] \in {" AND ", " or "}})

\* C23: when no prerequisite row of the course has a group id, every row is
\* a requirement of its own: met iff every row is satisfied, and unmet
\* names each unsatisfied row alone; a row without a logic type is then met
\* iff it is satisfied.  When all rows share one group id they are one
\* requirement: unmet has at most one entry, which joins all the rows.
Grouping ==
    lastCheck.valid =>
        /\ (\A r \in TargetRows : r.group_id = NullCode) =>
              /\ lastCheck.met <=> \A r \in TargetRows : AltSatisfied(r)
              /\ Len(lastCheck.unmet) = Cardinality({r \in TargetRows : ~AltSatisfied(r)})
              /\ \A k \in 1..Len(lastCheck.unmet) : AlternativesIn(lastCheck.unmet[k]) = 1
        /\ (TargetRows # {} /\ \A r, q \in TargetRows :
                                  r.group_id # NullCode /\ r.group_id = q.group_id) =>
              /\ Len(lastCheck.unmet) <= 1
              /\ \A k \in 1..Len(lastCheck.unmet) :
                    AlternativesIn(lastCheck.unmet[k]) = Cardinality(TargetRows)
              /\ (\A r \in TargetRows : r.logic_type = Null)
                    => (lastCheck.met <=> \E r \in TargetRows : AltSatisfied(r))

\* Two rows without a group id and without a logic type, of which the
\* completed codes satisfy one: the course is unmet, for one requirement.
GroupingWitness ==
    /\ lastCheck.valid
    /\ Cardinality(TargetRows) = 2
    /\ \A r \in TargetRows : r.group_id = NullCode /\ r.logic_type = Null
    /\ \E r \in TargetRows : AltSatisfied(r)
    /\ \E r \in TargetRows : ~AltSatisfied(r)
    /\ ~lastCheck.met
    /\ Len(lastCheck.unmet) = 1


\* The evaluation ran while the cycle that has now ended was in progress.
CheckedDuringThisCycle ==
    /\ pc = "done"
    /\ lastCheck.valid
    /\ lastCheck.at \in {"pass0", "pass1", "pass2", "pass2ins"}
    /\ lastCheck.cycle = runs + reruns

\* The answer of the evaluator on the given relationship rows, for the
\* course and the completed codes of the last evaluation.
AnswerOn(rels) ==
    checkPrerequisitesMet(rels, lastCheck.courseId, lastCheck.completed)

\* C28 as stated: an evaluation that ran while a cycle was in progress
\* returned the answer for the course's relationship rows as they were
\* before the cycle or as they are after it.
ConsistentReads ==
    (CheckedDuringThisCycle /\ prev.valid) =>
        \/ [met |-> lastCheck.met, unmet |-> lastCheck.unmet]
               = AnswerOn(WithIds(prev.content.course_relationships, 1))
        \/ [met |-> lastCheck.met, unmet |-> lastCheck.unmet]
               = AnswerOn(course_relationships)


\* The codes the alternatives of an entry's prerequisite groups refer to
\* (Undef for an alternative without a code).
ReferencedCodes(c) ==
    LET alts == Concat([g \in 1..Len(c.prerequisites) |-> c.prerequisites[g].alternatives])
    IN  {alts[k].course_code : k \in 1..Len(alts)}

\* C26 as stated: after a cycle without errors on a snapshot in which a
\* course has prerequisite groups whose alternatives all carry a course
\* code, the evaluator answers met = true for that course when the
\* completed codes are all the codes referred to.
ReconcileThenEvaluate ==
    (/\ pc = "done"
     /\ stats.errors = 0
     /\ lastCheck.valid
     /\ lastCheck.at = "done"
     /\ lastCheck.cycle = runs + reruns) =>
        \A code \in UpsertedCodes :
            LET c == LastEntry(code)
            IN  (/\ CourseWithCode(code).id = lastCheck.courseId
                 /\ Len(c.prerequisites) > 0
                 /\ Undef \notin ReferencedCodes(c)
                 /\ Range(lastCheck.completed) = ReferencedCodes(c))
                    => lastCheck.met


\* The orders in which the store may return the rows of a table.
RowOrders(t) ==
    {[k \in 1..Len(t) |-> t[f[k]]] :
        f \in {g \in [1..Len(t) -> 1..Len(t)] : Range(g) = 1..Len(t)}}

\* C29 as stated: for the rows of the store and the completed codes of an
\* evaluation, met is the same in whatever order the store returns the
\* rows, also when rows of one group differ in logic type.
RowOrderIndependence ==
    lastCheck.valid =>
        \A t \in RowOrders(course_relationships) : AnswerOn(t).met = lastCheck.met


\* C30: at every point of a run and at its end, errors is the number of
\* records in errorDetails, and coursesCreated + coursesUpdated is at most
\* total.
StatsConsistency ==
    /\ stats.errors = Len(stats.errorDetails)
    /\ stats.coursesCreated + stats.coursesUpdated <= stats.total

\* A run has ended in which Pass 0 failed and an entry failed after its
\* upsert: two errors, two details, and every entry counted as created or
\* updated.
StatsConsistencyWitness ==
    /\ pc = "done"
    /\ stats.errors = 2
    /\ stats.errorDetails[1].course_id = <<"PASS_0">>
    /\ stats.total = 2
    /\ stats.coursesCreated + stats.coursesUpdated = 2

=============================================================================
